---- MODULE Spec2Model ----
(***************************************************************************)
(* YelpCamp: the request pipeline of routes/campgrounds.js and             *)
(* routes/users.js over the shared store (users, sessions, campgrounds,    *)
(* reviews) and the asset store.                                           *)
(*                                                                         *)
(* A request is handled by a chain of middleware.  Every `await` of the    *)
(* chain is a point where other requests run, so a request that is past    *)
(* its guards and waits for its handler's store call sits in `inflight`.   *)
(* A store call (findById, findByIdAndUpdate, findByIdAndDelete, save) is  *)
(* atomic on its document.                                                 *)
(*                                                                         *)
(* The handlers modelled are the ones routes/campgrounds.js defines        *)
(* itself (lines 56-105); controllers/, models/campground.js,              *)
(* models/review.js and routes/reviews.js are not among the sources, and   *)
(* what the model needs of them is taken from the specification.           *)
(***************************************************************************)
EXTENDS Integers, Sequences, FiniteSets, Bags, TLC

\* ---------------------------------------------------------------- bounds
\* Requests suspended at an await at the same time.
MaxInFlight == 2

\* The last instant of the clock.
MaxTime == 17

\* Flash messages queued in all.
MaxNotices == 2

\* ---------------------------------------------------------------- values
\* cookie.maxAge, 7 days, in units of 12 hours.
MaxAge == 14

\* touchAfter of the session store, 24 hours, in units of 12 hours.
TouchAfter == 2

\* null / undefined: no req.user, no author.
None == "none"

\* The ObjectIds the User collection hands out, in order.  "u1" and "u2" are
\* the users registered before the server starts.
UserIds == <<"u1", "u2", "u3", "u4">>

\* Login handles, as character sequences so that split('@') is computed.
Emails == {<<"a", "@", "x">>, <<"a", "@", "y">>, <<"c", "@", "x">>}

\* Session cookies.
SessionIds == {"s0", "s1", "s2"}

\* Values of campground[title].
Titles == {"t1", "t2"}

\* req.body.campground: the submitted fields.  author = None: not submitted.
Bodies == [title : {"t2"}, author : {None, "u2"}]

\* A request without a body (DELETE, GET).
NoBody == [title |-> "", author |-> None]

\* The ObjectIds the Campground and the Review collection hand out, in order.
\* "c1" and "r1" are the seeded documents.
CampIds == <<"c1", "c2">>
ReviewIds == <<"r1", "r2">>

\* The :id and :reviewId values a client sends.
CampParams == {CampIds[i] : i \in DOMAIN CampIds}
ReviewParams == {ReviewIds[i] : i \in DOMAIN ReviewIds}

VARIABLES
    users,        \* User collection: _id -> [email, username]
    sessions,     \* session store: cookie -> [user, returnTo]
    campgrounds,  \* Campground collection: _id -> [title, author, reviews, images]
    reviews,      \* Review collection: _id -> [author, campground]
    destroyed,    \* deletion calls issued to the asset store, in order
    inflight,     \* bag of requests suspended before their handler's store call
    last,         \* the response sent last
    creator,      \* history: _id -> the req.user whose create request made the campground
    nextUser,     \* index in UserIds of the next User ObjectId
    nextCamp,     \* index in CampIds of the next Campground ObjectId
    nextReview,   \* index in ReviewIds of the next Review ObjectId
    up,           \* the server process is running
    now,          \* the clock, in units of 12 hours
    expiry,       \* session store: cookie -> [expires, lastModified]
    notices,      \* flash messages: id -> [sid, stored, handed]
    geocoded,     \* the last geocode call: [query, response, result]
    script        \* the repair script: [pass, pc, todo]

vars == <<users, sessions, campgrounds, reviews, destroyed, inflight, last,
          creator, nextUser, nextCamp, nextReview, up, now, expiry, notices,
          geocoded, script>>

\* What the campground, review and register handlers leave alone.
server == <<up, now, expiry, notices, geocoded, script>>

store == <<users, campgrounds, reviews, destroyed, creator, nextUser, nextCamp,
           nextReview>>

\* ---------------------------------------------------------------- helpers
\* f without the key k.
Without(f, k) == [x \in DOMAIN f \ {k} |-> f[x]]

\* f with k mapped to v.
With(f, k, v) == [x \in DOMAIN f \cup {k} |-> IF x = k THEN v ELSE f[x]]

\* The sequence s without the entries equal to e ($pull).
RECURSIVE Pull(_, _)
Pull(s, e) ==
    IF s = <<>> THEN <<>>
    ELSE IF Head(s) = e THEN Pull(Tail(s), e)
    ELSE <<Head(s)>> \o Pull(Tail(s), e)

\* How often e occurs in s.
RECURSIVE Count(_, _)
Count(s, e) ==
    IF s = <<>> THEN 0
    ELSE (IF Head(s) = e THEN 1 ELSE 0) + Count(Tail(s), e)

\* email.split('@')[0]
RECURSIVE LocalPart(_)
LocalPart(email) ==
    IF email = <<>> \/ Head(email) = "@" THEN <<>>
    ELSE <<Head(email)>> \o LocalPart(Tail(email))

\* req.originalUrl of a request on /campgrounds[/:id][/tail]; id "": no :id.
Url(id, tail) == [id |-> id, tail |-> tail]

\* No req.session.returnTo.
NoUrl == Url(None, None)

\* A response.  res: the redirect to "login", "index", "register" or "show"
\* (of the campground `to`), the rendered "edit" form, or the "error" page of
\* next(err); flash: the kind of the notice queued with req.flash, if any.
Response(res, to, flash) == [res |-> res, to |-> to, flash |-> flash]

\* The redirect a guard answers with: every one queues an error notice.
Refusal(out, id) ==
    CASE out = "show" -> Response("show", id, "error")
      [] out = "error" -> Response("error", "", "")
      [] OTHER -> Response(out, "", "error")

\* A suspended request.
Request(kind, sid, user, id, body) ==
    [kind |-> kind, sid |-> sid, user |-> user, id |-> id, body |-> body]

Suspend(req) == inflight (+) SetToBag({req})
Resume(req) == inflight (-) SetToBag({req})

\* ---------------------------------------------------------------- guards
\* A guard that lets every request through.
isLoggedIn_Open(user) == TRUE

\* isLoggedIn: req.isAuthenticated().
isLoggedIn(user) == user # None

\* A guard that does not look whether the campground was found.
isAuthor_Unchecked(user, id) ==
    IF id \notin DOMAIN campgrounds THEN "next"
    ELSE IF user = None \/ campgrounds[id].author # user THEN "show"
    ELSE "next"

\* isAuthor: "index" the campground is not found, "show" permission denied,
\* "error" campground.author.toString() threw and the catch called next(err),
\* "next" the request goes on.
isAuthor(user, id) ==
    IF id \notin DOMAIN campgrounds THEN "index"
    ELSE IF user = None THEN "show"
    ELSE IF campgrounds[id].author = None THEN "error"
    ELSE IF campgrounds[id].author # user THEN "show"
    ELSE "next"

\* The middleware in front of the handlers of PUT /:id, DELETE /:id and
\* GET /:id/edit: isLoggedIn, then isAuthor.
Guards(user, id) ==
    IF ~isLoggedIn(user) THEN "login" ELSE isAuthor(user, id)

\* isLoggedIn's failure branch: req.session.returnTo = req.originalUrl.
SaveReturnTo(sid, url) == [sessions EXCEPT ![sid].returnTo = url]

\* A guarded request on /campgrounds/:id[/tail] arrives and runs its guards up
\* to the handler's await.
Guarded(kind, sid, id, tail, body) ==
    LET user == sessions[sid].user
        out == Guards(user, id)
    IN  /\ IF out = "next"
           THEN /\ BagCardinality(inflight) < MaxInFlight
                /\ inflight' = Suspend(Request(kind, sid, user, id, body))
                /\ UNCHANGED last
           ELSE /\ last' = Refusal(out, id)
                /\ UNCHANGED inflight
        /\ sessions' = IF out = "login" THEN SaveReturnTo(sid, Url(id, tail))
                       ELSE sessions
        /\ UNCHANGED <<store, server>>

\* ---------------------------------------------------------------- campgrounds
\* new Campground(req.body.campground)
NewCampground(body) ==
    [title |-> body.title, author |-> body.author, reviews |-> <<>>,
     images |-> <<>>]

\* A create handler that keeps the author of the submitted fields.
StampAuthor_Submitted(doc, user) == doc

\* campground.author = req.user._id
StampAuthor(doc, user) == [doc EXCEPT !.author = user]

\* POST /campgrounds: isLoggedIn, then the create handler.
CreateCampground(sid, body) ==
    LET user == sessions[sid].user
    IN  IF ~isLoggedIn(user)
        THEN /\ sessions' = SaveReturnTo(sid, Url("", ""))
             /\ last' = Refusal("login", "")
             /\ UNCHANGED <<store, inflight, server>>
        ELSE /\ nextCamp \in DOMAIN CampIds
             /\ campgrounds' = With(campgrounds, CampIds[nextCamp],
                                    StampAuthor(NewCampground(body), user))
             /\ creator' = With(creator, CampIds[nextCamp], user)
             /\ nextCamp' = nextCamp + 1
             /\ last' = Response("show", CampIds[nextCamp], "success")
             /\ UNCHANGED <<users, reviews, destroyed, nextUser, nextReview,
                            sessions, inflight, server>>

\* The update document Mongoose builds from req.body.campground: every
\* submitted path of the schema is $set.
ApplyUpdate(doc, body) ==
    [doc EXCEPT !.title = body.title,
                !.author = IF body.author = None THEN @ ELSE body.author]

\* PUT /campgrounds/:id
PutCampground(sid, id, body) == Guarded("PUT", sid, id, "", body)

\* The update handler: findByIdAndUpdate, then the redirect to updated._id.
\* When no document has the id, updated is null and updated._id throws.
UpdateCampground(req) ==
    /\ BagIn(req, inflight) /\ req.kind = "PUT"
    /\ inflight' = Resume(req)
    /\ IF req.id \in DOMAIN campgrounds
       THEN /\ campgrounds' = [campgrounds EXCEPT
                                 ![req.id] = ApplyUpdate(@, req.body)]
            /\ last' = Response("show", req.id, "success")
       ELSE /\ last' = Response("error", "", "")
            /\ UNCHANGED campgrounds
    /\ UNCHANGED <<users, reviews, destroyed, creator, nextUser, nextCamp,
                   nextReview, sessions, server>>

\* DELETE /campgrounds/:id
DeleteRequest(sid, id) == Guarded("DELETE", sid, id, "", NoBody)

\* The Review collection after the delete hook of the campground id ran.
CascadeReviews(id) ==
    [r \in {x \in DOMAIN reviews : reviews[x].campground # id} |-> reviews[r]]

\* The deletion calls the delete hook issues for a campground document.
CascadeAssets(doc) == doc.images

\* A delete that leaves the document in the collection.
findByIdAndDelete_Kept(id) == campgrounds

\* Campground.findByIdAndDelete(id): the collection without the document.
findByIdAndDelete(id) == Without(campgrounds, id)

\* The delete handler: findByIdAndDelete, then the flash and the redirect to
\* the index, whether or not a document was found.
DeleteCampground(req) ==
    /\ BagIn(req, inflight) /\ req.kind = "DELETE"
    /\ inflight' = Resume(req)
    /\ IF req.id \in DOMAIN campgrounds
       THEN /\ campgrounds' = findByIdAndDelete(req.id)
            /\ reviews' = CascadeReviews(req.id)
            /\ destroyed' = destroyed \o CascadeAssets(campgrounds[req.id])
       ELSE UNCHANGED <<campgrounds, reviews, destroyed>>
    /\ last' = Response("index", "", "success")
    /\ UNCHANGED <<users, creator, nextUser, nextCamp, nextReview, sessions,
                   server>>

\* GET /campgrounds/:id/edit
EditRequest(sid, id) == Guarded("EDIT", sid, id, "edit", NoBody)

\* The edit-form handler: findById, then the form or the redirect to the index.
RenderEditForm(req) ==
    /\ BagIn(req, inflight) /\ req.kind = "EDIT"
    /\ inflight' = Resume(req)
    /\ last' = IF req.id \in DOMAIN campgrounds THEN Response("edit", "", "")
               ELSE Refusal("index", "")
    /\ UNCHANGED <<store, sessions, server>>

\* ---------------------------------------------------------------- reviews
\* The review routes (routes/reviews.js) and the Review model are not among
\* the sources; these definitions follow the specification, sections 3, 4.4
\* and 4.6, behind the isLoggedIn of the sources.

\* A guard that also lets the author of the review's campground through.
isReviewAuthor_OrCampgroundAuthor(user, rid) ==
    IF rid \notin DOMAIN reviews THEN "index"
    ELSE IF /\ reviews[rid].author # user
            /\ campgrounds[reviews[rid].campground].author # user THEN "show"
    ELSE "next"

\* The ownership guard of a review mutation: "index" the review is not found,
\* "show" permission denied, "next" the request goes on.
isReviewAuthor(user, rid) ==
    IF rid \notin DOMAIN reviews THEN "index"
    ELSE IF reviews[rid].author # user THEN "show"
    ELSE "next"

\* A create that does not touch the parent.
PushReview_Skipped(doc, rid) == doc

\* The parent's review sequence after the new review's id is appended.
PushReview(doc, rid) == [doc EXCEPT !.reviews = Append(@, rid)]

\* The Campground collection after the id is pulled out of its parent.
PullReview(rid) ==
    [c \in DOMAIN campgrounds |->
        IF c = reviews[rid].campground
        THEN [campgrounds[c] EXCEPT !.reviews = Pull(@, rid)]
        ELSE campgrounds[c]]

\* POST /campgrounds/:id/reviews: the Review is persisted and its id appended
\* to the parent in one unit of work.
CreateReview(sid, id) ==
    LET user == sessions[sid].user
        rid == ReviewIds[nextReview]
    IN  IF ~isLoggedIn(user)
        THEN /\ sessions' = SaveReturnTo(sid, Url(id, "reviews"))
             /\ last' = Refusal("login", "")
             /\ UNCHANGED <<store, inflight, server>>
        ELSE IF id \notin DOMAIN campgrounds
        THEN /\ last' = Refusal("index", "")
             /\ UNCHANGED <<store, inflight, sessions, server>>
        ELSE /\ nextReview \in DOMAIN ReviewIds
             /\ reviews' = With(reviews, rid, [author |-> user, campground |-> id])
             /\ campgrounds' = [campgrounds EXCEPT ![id] = PushReview(@, rid)]
             /\ nextReview' = nextReview + 1
             /\ last' = Response("show", id, "success")
             /\ UNCHANGED <<users, destroyed, creator, nextUser, nextCamp,
                            sessions, inflight, server>>

\* DELETE /campgrounds/:id/reviews/:reviewId: the Review is removed and its id
\* pulled out of the parent in one unit of work.
DeleteReview(sid, id, rid) ==
    LET user == sessions[sid].user
        out == IF ~isLoggedIn(user) THEN "login" ELSE isReviewAuthor(user, rid)
    IN  /\ IF out = "next"
           THEN /\ reviews' = Without(reviews, rid)
                /\ campgrounds' = PullReview(rid)
                /\ last' = Response("show", id, "success")
           ELSE /\ last' = Refusal(out, id)
                /\ UNCHANGED <<campgrounds, reviews>>
        /\ sessions' = IF out = "login"
                       THEN SaveReturnTo(sid, Url(id, "reviews"))
                       ELSE sessions
        /\ UNCHANGED <<users, destroyed, creator, nextUser, nextCamp, nextReview,
                       inflight, server>>

\* ---------------------------------------------------------------- users
\* A collection without the unique index.
UniqueEmail_NoIndex(email) == TRUE

\* The unique index of the email path: an insert of a second document with
\* the same email is rejected.
UniqueEmail(email) == \A u \in DOMAIN users : users[u].email # email

\* The pre-save hook: username is set from the email when it is not given.
PreSave(doc) ==
    IF doc.username = <<>> /\ doc.email # <<>>
    THEN [doc EXCEPT !.username = LocalPart(doc.email)]
    ELSE doc

\* new User({ email })
NewUser(email) == [email |-> email, username |-> <<>>]

\* User.register looks the email up (findByUsername) before it hashes
\* the password and saves.
UserExists(email) == \E u \in DOMAIN users : users[u].email = email

\* POST /register up to the await of the save: an existing email rejects with
\* UserExistsError, which the catch answers with the redirect to /register.
RegisterRequest(sid, email) ==
    /\ IF UserExists(email)
       THEN /\ last' = Refusal("register", "")
            /\ UNCHANGED inflight
       ELSE /\ BagCardinality(inflight) < MaxInFlight
            /\ inflight' = Suspend(Request("REGISTER", sid, sessions[sid].user,
                                           "", [email |-> email]))
            /\ UNCHANGED last
    /\ UNCHANGED <<store, sessions, server>>

\* A registration that leaves the session as it was.
loginAsync_Skipped(sid, user) == sessions

\* loginAsync: req.login puts the user in the session of the request.
loginAsync(sid, user) == [sessions EXCEPT ![sid].user = user]

\* The save of User.register, then loginAsync and the redirect to the index;
\* a rejected insert is answered by the catch, and so is a req.login that
\* gives its callback an error (the session could not be written).
RegisterSave(req) ==
    /\ BagIn(req, inflight) /\ req.kind = "REGISTER"
    /\ inflight' = Resume(req)
    /\ IF UniqueEmail(req.body.email)
       THEN /\ nextUser \in DOMAIN UserIds
            /\ users' = With(users, UserIds[nextUser],
                             PreSave(NewUser(req.body.email)))
            /\ nextUser' = nextUser + 1
            /\ \E loggedIn \in BOOLEAN :
                 IF loggedIn
                 THEN /\ sessions' = loginAsync(req.sid, UserIds[nextUser])
                      /\ last' = Response("index", "", "success")
                 ELSE /\ last' = Refusal("register", "")
                      /\ UNCHANGED sessions
       ELSE /\ last' = Refusal("register", "")
            /\ UNCHANGED <<users, nextUser, sessions>>
    /\ UNCHANGED <<campgrounds, reviews, destroyed, creator, nextCamp,
                   nextReview, server>>

\* ---------------------------------------------------------------- sessions
\* A session without req.user and without returnTo: what the session
\* middleware makes for a cookie that has no record in the store.
EmptySession == [user |-> None, returnTo |-> NoUrl]

\* The dates of a session record written now: cookie.expires is now + maxAge.
FreshExpiry == [expires |-> now + MaxAge, lastModified |-> now]

\* res.redirect(url) of a stored req.originalUrl, as the page it leads to.
Redirect(url, flash) ==
    CASE url.id = "" -> Response("index", "", flash)
      [] url.tail = "" -> Response("show", url.id, flash)
      [] url.tail = "edit" -> Response("editurl", url.id, flash)
      [] OTHER -> Response("reviewsurl", url.id, flash)

\* passport.authenticate('local'): the user of the email when the password
\* matches (ok), else no user.
Authenticate(email, ok) ==
    IF ok /\ UserExists(email)
    THEN CHOOSE u \in DOMAIN users : users[u].email = email
    ELSE None

\* req.login of passport.authenticate: the session is regenerated and holds
\* the user only; nothing of the session before the login is kept
\* (no keepSessionInfo).
Regenerate(sid, user) ==
    [sessions EXCEPT ![sid] = [user |-> user, returnTo |-> NoUrl]]

\* req.session.returnTo || '/campgrounds', redirected to with the notice.
LoginRedirect(session) ==
    IF session.returnTo = NoUrl THEN Response("index", "", "success")
    ELSE Redirect(session.returnTo, "success")

\* POST /login: passport.authenticate, then the handler that reads and
\* deletes req.session.returnTo.
Login(sid, email, ok) ==
    LET user == Authenticate(email, ok)
    IN  /\ up
        /\ IF user = None
           THEN /\ last' = Response("login", "", "error")
                /\ UNCHANGED <<sessions, expiry>>
           ELSE LET regenerated == Regenerate(sid, user)
                IN  /\ last' = LoginRedirect(regenerated[sid])
                    /\ sessions' = [regenerated EXCEPT ![sid].returnTo = NoUrl]
                    /\ expiry' = [expiry EXCEPT ![sid] = FreshExpiry]
        /\ UNCHANGED <<store, inflight, up, now, notices, geocoded, script>>

\* A logout that leaves the session record as it is.
DestroySession_Kept(sid) == sessions

\* req.logout, then req.session.destroy: the record of the cookie is removed
\* from the store.
DestroySession(sid) == [sessions EXCEPT ![sid] = EmptySession]

\* GET /logout.  In the callback of destroy, req.flash runs without
\* req.session and throws; the exception is outside every try of the
\* application: it is either uncaught, which ends the process, or caught by
\* the promise chain of the store, which calls the callback again with it,
\* so that next(err) answers with the error page.
Logout(sid, uncaught) ==
    /\ up
    /\ sessions' = DestroySession(sid)
    /\ expiry' = [expiry EXCEPT ![sid] = FreshExpiry]
    /\ IF uncaught
       THEN /\ up' = FALSE
            /\ inflight' = EmptyBag
            /\ last' = Response("", "", "")
       ELSE /\ last' = Response("error", "", "")
            /\ UNCHANGED <<up, inflight>>
    /\ UNCHANGED <<store, now, notices, geocoded, script>>

\* The store's get: a record is found while its expires is in the future.
Live(sid) == now < expiry[sid].expires

\* req.user of a request with the cookie.
Resolve(sid) == IF Live(sid) THEN sessions[sid].user ELSE None

\* A touch that writes the record on every request.
Touch_Always(rec) == FreshExpiry

\* The store's touch at the end of a request that left the session as it
\* was: nothing is written within touchAfter of the last write.
Touch(rec) ==
    IF now - rec.lastModified < TouchAfter THEN rec ELSE FreshExpiry

\* GET /: a request that does not change its session.  A cookie without a
\* live record gets a new, empty session.
Visit(sid) ==
    /\ up
    /\ IF Live(sid)
       THEN /\ expiry' = [expiry EXCEPT ![sid] = Touch(@)]
            /\ UNCHANGED sessions
       ELSE /\ sessions' = [sessions EXCEPT ![sid] = EmptySession]
            /\ expiry' = [expiry EXCEPT ![sid] = FreshExpiry]
    /\ last' = Response("home", "", "")
    /\ UNCHANGED <<store, inflight, up, now, notices, geocoded, script>>

\* Time passes.
Tick ==
    /\ now < MaxTime
    /\ now' = now + 1
    /\ UNCHANGED <<store, sessions, inflight, last, up, expiry, notices,
                   geocoded, script>>

\* A store in the memory of the process: a restart empties it.
StoreAfterRestart_Memory == [s \in SessionIds |-> EmptySession]

\* The session store after the process is started again: the store is in
\* the database, and so are its records.
StoreAfterRestart == sessions

\* The process is started (again): the requests it was handling are gone.
Restart ==
    /\ up' = TRUE
    /\ inflight' = EmptyBag
    /\ sessions' = StoreAfterRestart
    /\ UNCHANGED <<store, last, now, expiry, notices, geocoded, script>>

\* ---------------------------------------------------------------- flash
\* The notices the store's record of the session holds: req.session.flash.
StoredFlash(sid) ==
    {n \in DOMAIN notices : notices[n].sid = sid /\ notices[n].stored}

\* The locals middleware: req.flash('success'), req.flash('error') hand the
\* notices of the request's copy of the session to res.locals and delete
\* them from the copy; the session middleware writes a changed copy to the
\* store when the response ends.
ReadFlash(sid, copy) ==
    [n \in DOMAIN notices |->
        IF n \in copy
        THEN [notices[n] EXCEPT !.handed = @ + 1, !.stored = FALSE]
        ELSE IF copy # {} /\ notices[n].sid = sid
        THEN [notices[n] EXCEPT !.stored = FALSE]
        ELSE notices[n]]

\* POST /login with a wrong password, in one step: the notices of the
\* session are read by the locals middleware, the failure notice is queued
\* (failureFlash) and the session is saved with the redirect to /login.
FailedLogin(sid) ==
    /\ up
    /\ Len(notices) < MaxNotices
    /\ notices' = Append(ReadFlash(sid, StoredFlash(sid)),
                         [sid |-> sid, stored |-> TRUE, handed |-> 0])
    /\ last' = Response("login", "", "error")
    /\ UNCHANGED <<store, sessions, inflight, up, now, expiry, geocoded, script>>

\* GET /login up to the await of the session middleware's load: the request
\* has its copy of the session.
LoadSession(sid) ==
    /\ up
    /\ BagCardinality(inflight) < MaxInFlight
    /\ inflight' = Suspend(Request("PAGE", sid, sessions[sid].user, "",
                                   [flash |-> StoredFlash(sid)]))
    /\ UNCHANGED <<store, sessions, last, server>>

\* GET /login from the locals middleware on: the form is rendered with the
\* notices of the request's copy.
LoginForm(req) ==
    /\ up
    /\ BagIn(req, inflight) /\ req.kind = "PAGE"
    /\ inflight' = Resume(req)
    /\ notices' = ReadFlash(req.sid, req.body.flash)
    /\ last' = Response("loginform", "", "")
    /\ UNCHANGED <<store, sessions, up, now, expiry, geocoded, script>>

\* ---------------------------------------------------------------- geocoding
\* The characters of the lat and lon strings of a result, and the strings.
Chars == {"-", "1", "2", "x"}
Digits == {"1", "2"}
MaxChars == 2
Strings == UNION {[1..n -> Chars] : n \in 0..MaxChars}

\* The result of a parse: a number, or NaN.
Number(v) == [nan |-> FALSE, value |-> v]
NaN == [nan |-> TRUE, value |-> 0]

DigitValue(c) == IF c = "1" THEN 1 ELSE 2

\* The value of the longest prefix of digits of s, NaN when it is empty.
RECURSIVE ParseDigits(_, _, _)
ParseDigits(s, seen, acc) ==
    IF s # <<>> /\ Head(s) \in Digits
    THEN ParseDigits(Tail(s), TRUE, 10 * acc + DigitValue(Head(s)))
    ELSE IF seen THEN Number(acc) ELSE NaN

\* parseFloat: an optional sign, then the longest prefix that is a number.
parseFloat(s) ==
    IF s # <<>> /\ Head(s) = "-"
    THEN LET n == ParseDigits(Tail(s), FALSE, 0)
         IN  IF n.nan THEN NaN ELSE Number(0 - n.value)
    ELSE ParseDigits(s, FALSE, 0)

\* What the call of the geocoding service ends in: fetch rejects (no network),
\* a response that is not ok, a body that is not JSON, JSON that is not an
\* array, an empty array, or an array whose first entry has lat and lon.
ResponseKinds == {"rejected", "not ok", "not json", "not array", "empty"}
NoCoordinate == <<>>
Responses ==
    {[kind |-> k, lat |-> NoCoordinate, lon |-> NoCoordinate] :
        k \in ResponseKinds}
    \cup {[kind |-> "entry", lat |-> lat, lon |-> lon] :
            lat \in Strings, lon \in Strings}
NoResponse == [kind |-> "", lat |-> NoCoordinate, lon |-> NoCoordinate]
Queries == {"", "q"}

\* The outcomes of geocode: null, a GeoJSON Point, or a rejection.
Null == [type |-> "null", coordinates |-> <<>>]
Point(lon, lat) == [type |-> "Point", coordinates |-> <<lon, lat>>]
Rejected == [type |-> "rejected", coordinates |-> <<>>]

geocode(query, response) ==
    IF query = "" THEN Null
    ELSE CASE response.kind = "rejected" -> Rejected
           [] response.kind = "not ok" -> Null
           [] response.kind = "not json" -> Rejected
           [] response.kind \in {"not array", "empty"} -> Null
           [] OTHER ->
                LET latN == parseFloat(response.lat)
                    lonN == parseFloat(response.lon)
                IN  IF latN.nan \/ lonN.nan THEN Null
                    ELSE Point(lonN.value, latN.value)

\* A call of geocode; no request is sent for the empty query.
Geocode(query, response) ==
    /\ geocoded' = [query |-> query,
                    response |-> IF query = "" THEN NoResponse ELSE response,
                    result |-> geocode(query, response)]
    /\ UNCHANGED <<store, sessions, inflight, last, up, now, expiry, notices,
                   script>>

\* ---------------------------------------------------------------- routing
\* A request path is the sequence of its segments. The two paths a client may
\* take for the feed: /campgrounds.json, which the map script fetches, and
\* /campgrounds/campgrounds.json, the path of the route inside the router.
FeedPaths == {<<"campgrounds.json">>, <<"campgrounds", "campgrounds.json">>}

\* The GET routes of the campgrounds router, in the order of registration.
GetRoutes == <<"index", "renderNewForm", "showCampground", "renderEditForm",
               "campgrounds.json">>

\* The match of a route's pattern with the path below the mount point.
Matches(route, path) ==
    CASE route = "index" -> path = <<>>
      [] route = "renderNewForm" -> path = <<"new">>
      [] route = "showCampground" -> Len(path) = 1
      [] route = "renderEditForm" -> Len(path) = 2 /\ path[2] = "edit"
      [] route = "campgrounds.json" -> path = <<"campgrounds.json">>

\* The router gives the request to the first registered route that matches.
Route(path) ==
    LET hits == {i \in DOMAIN GetRoutes : Matches(GetRoutes[i], path)}
    IN  IF hits = {} THEN "Page Not Found"
        ELSE GetRoutes[CHOOSE i \in hits : \A j \in hits : i <= j]

\* The application: the router is mounted at /campgrounds, and a path no
\* mount takes falls to the catch-all.
Dispatch(path) ==
    IF path # <<>> /\ Head(path) = "campgrounds" THEN Route(Tail(path))
    ELSE "Page Not Found"

\* A GET for the feed: the response is that of the handler the request is
\* dispatched to, with the :id parameter where the route has one.
FeedRequest(path) ==
    /\ up
    /\ last' = LET handler == Dispatch(path)
               IN  IF handler = "showCampground"
                   THEN Response(handler, path[Len(path)], "")
                   ELSE Response(handler, "", "")
    /\ UNCHANGED <<store, sessions, inflight, server>>

\* ---------------------------------------------------------------- repair script
\* The passes of the script that are run.
MaxPasses == 2

\* The email of the default user of the script.
SystemEmail == <<"system", "@", "yelpcamp.com">>

\* A query that finds no user.
WithoutUsername_None(u) == FALSE

\* The query of fix 1: username missing, null or ''.
WithoutUsername(u) == users[u].username = <<>>

\* The query of fixes 2 and 3: author missing or null.
WithoutAuthor(doc) == doc.author = None

\* User.findOne({ email: 'system@yelpcamp.com' })
DefaultUser ==
    IF UserExists(SystemEmail)
    THEN CHOOSE u \in DOMAIN users : users[u].email = SystemEmail
    ELSE None

\* The script is started: it connects and runs the query of fix 1.
StartPass ==
    /\ script.pc = "idle" /\ script.pass < MaxPasses
    /\ script' = [script EXCEPT !.pc = "users",
                     !.todo = {u \in DOMAIN users : WithoutUsername(u)}]
    /\ UNCHANGED <<store, sessions, inflight, last, up, now, expiry, notices,
                   geocoded>>

\* One turn of the loop of fix 1: a user that has an email gets the part of
\* the email before the '@' as username and is saved.
FixUser(u) ==
    /\ script.pc = "users" /\ u \in script.todo
    /\ script' = [script EXCEPT !.todo = @ \ {u}]
    /\ users' = IF users[u].email # <<>>
                THEN [users EXCEPT ![u] =
                        PreSave([email |-> @.email,
                                 username |-> LocalPart(@.email)])]
                ELSE users
    /\ UNCHANGED <<campgrounds, reviews, destroyed, creator, nextUser,
                   nextCamp, nextReview, sessions, inflight, last, up, now,
                   expiry, notices, geocoded>>

\* The users after "get or create" of the default user.
WithDefaultUser ==
    IF DefaultUser # None THEN users
    ELSE With(users, UserIds[nextUser],
              PreSave([email |-> SystemEmail, username |-> <<"system">>]))

\* The query of fix 2 or fix 3, run when the loop before it has ended; when
\* it finds documents, the default user is looked up and registered if there
\* is none.
Find(pc, next, found) ==
    /\ script.pc = pc /\ script.todo = {}
    /\ script' = [script EXCEPT !.pc = next, !.todo = found]
    /\ IF found # {} /\ DefaultUser = None
       THEN /\ nextUser \in DOMAIN UserIds
            /\ users' = WithDefaultUser
            /\ nextUser' = nextUser + 1
       ELSE UNCHANGED <<users, nextUser>>
    /\ UNCHANGED <<campgrounds, reviews, destroyed, creator, nextCamp,
                   nextReview, sessions, inflight, last, up, now, expiry,
                   notices, geocoded>>

FindCampgrounds ==
    Find("users", "campgrounds",
         {c \in DOMAIN campgrounds : WithoutAuthor(campgrounds[c])})

FindReviews ==
    Find("campgrounds", "reviews",
         {r \in DOMAIN reviews : WithoutAuthor(reviews[r])})

\* One turn of the loop of fix 2.
FixCampground(c) ==
    /\ script.pc = "campgrounds" /\ c \in script.todo
    /\ script' = [script EXCEPT !.todo = @ \ {c}]
    /\ campgrounds' = [campgrounds EXCEPT ![c].author = DefaultUser]
    /\ UNCHANGED <<users, reviews, destroyed, creator, nextUser, nextCamp,
                   nextReview, sessions, inflight, last, up, now, expiry,
                   notices, geocoded>>

\* One turn of the loop of fix 3.
FixReview(r) ==
    /\ script.pc = "reviews" /\ r \in script.todo
    /\ script' = [script EXCEPT !.todo = @ \ {r}]
    /\ reviews' = [reviews EXCEPT ![r].author = DefaultUser]
    /\ UNCHANGED <<users, campgrounds, destroyed, creator, nextUser, nextCamp,
                   nextReview, sessions, inflight, last, up, now, expiry,
                   notices, geocoded>>

\* The summary is printed and the connection closed: the pass is complete.
EndPass ==
    /\ script.pc = "reviews" /\ script.todo = {}
    /\ script' = [script EXCEPT !.pc = "idle", !.pass = @ + 1]
    /\ UNCHANGED <<store, sessions, inflight, last, up, now, expiry, notices,
                   geocoded>>

\* ---------------------------------------------------------------- specification
\* The store when the server starts: two registered users, logged in on s1 and
\* s2, an anonymous session s0, and one seeded campground with two images and
\* one review, whose author is u1 or missing (a record from before the author
\* field existed).
Init ==
    /\ users = ("u1" :> [email |-> <<"a", "@", "x">>, username |-> <<"a">>])
            @@ ("u2" :> [email |-> <<"b", "@", "x">>, username |-> <<"b">>])
    /\ sessions = [s \in SessionIds |->
                     [user |-> CASE s = "s1" -> "u1" [] s = "s2" -> "u2"
                                 [] OTHER -> None,
                      returnTo |-> NoUrl]]
    /\ \E a \in {None, "u1"} :
         /\ campgrounds = ("c1" :> [title |-> "t1", author |-> a,
                                    reviews |-> <<"r1">>,
                                    images |-> <<"f1", "f2">>])
         /\ creator = ("c1" :> a)
    /\ reviews = ("r1" :> [author |-> "u2", campground |-> "c1"])
    /\ destroyed = <<>>
    /\ inflight = EmptyBag
    /\ last = Response("", "", "")
    /\ nextUser = 3
    /\ nextCamp = 2
    /\ nextReview = 2
    /\ up = TRUE
    /\ now = 0
    /\ expiry = [s \in SessionIds |-> [expires |-> MaxAge, lastModified |-> 0]]
    /\ notices = <<>>
    /\ geocoded = [query |-> "", response |-> NoResponse, result |-> Null]
    /\ script = [pass |-> 0, pc |-> "idle", todo |-> {}]

\* The campground routes, for the clients that hold the given sessions.
NextOf(clients) ==
    \/ \E sid \in clients, body \in Bodies : CreateCampground(sid, body)
    \/ \E sid \in clients, id \in CampParams, body \in Bodies :
         PutCampground(sid, id, body)
    \/ \E sid \in clients, id \in CampParams : DeleteRequest(sid, id)
    \/ \E sid \in clients, id \in CampParams : EditRequest(sid, id)
    \/ \E req \in BagToSet(inflight) : UpdateCampground(req)
    \/ \E req \in BagToSet(inflight) : DeleteCampground(req)
    \/ \E req \in BagToSet(inflight) : RenderEditForm(req)

\* Two logged-in clients.
Next == NextOf({"s1", "s2"})

Spec == Init /\ [][Next]_vars

\* An anonymous client and a logged-in one.
NextGuest == NextOf({"s0", "s1"})

SpecGuest == Init /\ [][NextGuest]_vars

\* The review routes, with the create and the delete of their parents.
NextReviews ==
    \/ \E sid \in SessionIds, body \in Bodies : CreateCampground(sid, body)
    \/ \E sid \in SessionIds, id \in CampParams : DeleteRequest(sid, id)
    \/ \E req \in BagToSet(inflight) : DeleteCampground(req)
    \/ \E sid \in SessionIds, id \in CampParams : CreateReview(sid, id)
    \/ \E sid \in SessionIds, id \in CampParams, rid \in ReviewParams :
         DeleteReview(sid, id, rid)

SpecReviews == Init /\ [][NextReviews]_vars

\* The registration route.
NextRegister ==
    \/ \E sid \in SessionIds, email \in Emails : RegisterRequest(sid, email)
    \/ \E req \in BagToSet(inflight) : RegisterSave(req)

SpecRegister == Init /\ [][NextRegister]_vars

\* Login and logout, with the edit form as the guarded route, and restarts.
NextAuth ==
    \/ \E sid \in SessionIds, id \in CampParams : up /\ EditRequest(sid, id)
    \/ \E req \in BagToSet(inflight) : up /\ RenderEditForm(req)
    \/ \E sid \in SessionIds, u \in DOMAIN users, ok \in BOOLEAN :
         Login(sid, users[u].email, ok)
    \/ \E sid \in SessionIds, uncaught \in BOOLEAN : Logout(sid, uncaught)
    \/ Restart

SpecAuth == Init /\ [][NextAuth]_vars

\* Sessions over time.
NextSessions ==
    \/ \E sid \in SessionIds : Visit(sid)
    \/ Tick

SpecSessions == Init /\ [][NextSessions]_vars

\* Flash messages from the request that queues them to the pages that show
\* them.
NextFlash ==
    \/ \E sid \in SessionIds : FailedLogin(sid)
    \/ \E sid \in SessionIds : LoadSession(sid)
    \/ \E req \in BagToSet(inflight) : LoginForm(req)

SpecFlash == Init /\ [][NextFlash]_vars

\* The campground routes of one client, and the feed.
NextFeed ==
    \/ NextOf({"s1"})
    \/ \E path \in FeedPaths : FeedRequest(path)

SpecFeed == Init /\ [][NextFeed]_vars

\* Calls of the geocoder.
NextGeocode == \E query \in Queries, response \in Responses :
                  Geocode(query, response)

SpecGeocode == Init /\ [][NextGeocode]_vars

\* Registration from a session, and the guarded create route.
NextJoin ==
    \/ \E sid \in SessionIds, email \in Emails : RegisterRequest(sid, email)
    \/ \E req \in BagToSet(inflight) : RegisterSave(req)
    \/ \E sid \in SessionIds, body \in Bodies : CreateCampground(sid, body)

SpecJoin == Init /\ [][NextJoin]_vars

\* The database the repair script is run on: users from before the username
\* field existed and after, one of them registered with an email that begins
\* with '@'; the default user there or not; campgrounds and reviews with and
\* without author.
InitRepair ==
    /\ \E n1 \in {<<>>, <<"a">>}, e2 \in {<<"b", "@", "x">>, <<"@", "x">>},
          old2 \in BOOLEAN, system \in BOOLEAN :
         /\ users =
              LET legacy ==
                    ("u1" :> [email |-> <<"a", "@", "x">>, username |-> n1])
                    @@ ("u2" :> [email |-> e2,
                                 username |-> IF old2 THEN <<>>
                                              ELSE LocalPart(e2)])
              IN  IF system
                  THEN legacy @@ ("u3" :> [email |-> SystemEmail,
                                           username |-> <<"system">>])
                  ELSE legacy
         /\ nextUser = IF system THEN 4 ELSE 3
    /\ sessions = [s \in SessionIds |-> EmptySession]
    /\ \E a1 \in {None, "u1"}, a2 \in {None, "u2"} :
         /\ campgrounds = ("c1" :> [title |-> "t1", author |-> a1,
                                    reviews |-> <<"r1", "r2">>,
                                    images |-> <<>>])
                          @@ ("c2" :> [title |-> "t2", author |-> a2,
                                       reviews |-> <<>>, images |-> <<>>])
         /\ creator = ("c1" :> a1) @@ ("c2" :> a2)
    /\ \E a1 \in {None, "u1"}, a2 \in {None, "u2"} :
         reviews = ("r1" :> [author |-> a1, campground |-> "c1"])
                   @@ ("r2" :> [author |-> a2, campground |-> "c1"])
    /\ nextCamp = 3
    /\ nextReview = 3
    /\ destroyed = <<>>
    /\ inflight = EmptyBag
    /\ last = Response("", "", "")
    /\ up = TRUE
    /\ now = 0
    /\ expiry = [s \in SessionIds |-> [expires |-> MaxAge, lastModified |-> 0]]
    /\ notices = <<>>
    /\ geocoded = [query |-> "", response |-> NoResponse, result |-> Null]
    /\ script = [pass |-> 0, pc |-> "idle", todo |-> {}]

\* The runs of the repair script.
NextRepair ==
    \/ StartPass
    \/ \E u \in DOMAIN users : FixUser(u)
    \/ FindCampgrounds
    \/ \E c \in DOMAIN campgrounds : FixCampground(c)
    \/ FindReviews
    \/ \E r \in DOMAIN reviews : FixReview(r)
    \/ EndPass

SpecRepair == InitRepair /\ [][NextRepair]_vars

\* ---------------------------------------------------------------- claims
\* C1: a PUT or DELETE on a campground by a logged-in user who is not its
\* owner is answered with the redirect to that campground's show page, and
\* the campground, its owner and its reviews are left as they were.
C1_NonOwnerRedirectedToShow ==
    [][\A sid \in SessionIds, id \in DOMAIN campgrounds :
         (/\ sessions[sid].user # None
          /\ campgrounds[id].author # sessions[sid].user
          /\ \/ \E body \in Bodies : PutCampground(sid, id, body)
             \/ DeleteRequest(sid, id))
         => /\ last' = Response("show", id, "error")
            /\ campgrounds' = campgrounds
            /\ reviews' = reviews]_vars

\* C2: a request without a logged-in user on a guarded campground route
\* (create, edit form, update, delete) is redirected to the login page, its
\* original url is stored as the session's returnTo, and no campground, review
\* or user is changed.
C2_AnonymousRedirectedToLogin ==
    [][\A sid \in SessionIds :
         sessions[sid].user = None =>
           LET refused == /\ last'.res = "login"
                          /\ UNCHANGED <<users, campgrounds, reviews, inflight>>
               saved(url) == sessions'[sid].returnTo = url
           IN  /\ \A body \in Bodies :
                    CreateCampground(sid, body) => refused /\ saved(Url("", ""))
               /\ \A id \in CampParams :
                    /\ \A body \in Bodies :
                         PutCampground(sid, id, body)
                           => refused /\ saved(Url(id, ""))
                    /\ DeleteRequest(sid, id) => refused /\ saved(Url(id, ""))
                    /\ EditRequest(sid, id)
                         => refused /\ saved(Url(id, "edit"))]_vars

\* C2's case: the anonymous session was sent to the login page from the edit
\* form of the seeded campground.
C2_Witness ==
    /\ sessions["s0"].user = None
    /\ sessions["s0"].returnTo = Url("c1", "edit")
    /\ last = Response("login", "", "error")

C7_RegisterOncePerEmail ==
    /\ [](\A u, v \in DOMAIN users : users[u].email = users[v].email => u = v)
    /\ [][/\ \A sid \in SessionIds, email \in Emails :
               (UserExists(email) /\ RegisterRequest(sid, email)) =>
                 /\ users' = users
                 /\ inflight' = inflight
                 /\ last' = Response("register", "", "error")
          /\ \A req \in BagToSet(inflight) :
               (req.kind = "REGISTER" /\ UserExists(req.body.email)
                  /\ RegisterSave(req)) =>
                 /\ users' = users
                 /\ sessions' = sessions
                 /\ last' = Response("register", "", "error")]_vars

\* C7's case: one registration of a@y went through, and no other request is
\* left: the last one for an email in use was sent back to the register form.
C7_Witness ==
    /\ \E u \in DOMAIN users : users[u].email = <<"a", "@", "y">>
    /\ Cardinality(DOMAIN users) = 3
    /\ inflight = EmptyBag
    /\ last = Response("register", "", "error")

\* C8: a delete request on a review by a logged-in user who is not the
\* review's author, the author of its campground included, leaves the review
\* and its campground as they were; a review that a delete request removes
\* was that of the request's user.
C8_OnlyReviewAuthorDeletes ==
    [][\A sid \in SessionIds, id \in CampParams, rid \in DOMAIN reviews :
         DeleteReview(sid, id, rid) =>
           IF sessions[sid].user = reviews[rid].author
           THEN rid \notin DOMAIN reviews'
           ELSE /\ reviews' = reviews
                /\ campgrounds' = campgrounds
                /\ sessions[sid].user # None
                     => last' = Response("show", id, "error")]_vars

\* C8's case: the review of u2 is still there after a delete request on it
\* was refused; the seeded campground has no author, so that the only route
\* that answers so is the review's.
C8_Witness ==
    /\ "r1" \in DOMAIN reviews
    /\ reviews["r1"].author = "u2"
    /\ "c1" \in DOMAIN campgrounds
    /\ campgrounds["c1"].author = None
    /\ Count(campgrounds["c1"].reviews, "r1") = 1
    /\ last = Response("show", "c1", "error")

\* C9: when a review create completes, the review sequence of its campground
\* contains the new review's id exactly once; when a review delete completes,
\* the review is gone and no review sequence contains its id.
C9_ReviewSequenceInStep ==
    [][/\ \A rid \in DOMAIN reviews' \ DOMAIN reviews :
            /\ reviews'[rid].campground \in DOMAIN campgrounds'
            /\ Count(campgrounds'[reviews'[rid].campground].reviews, rid) = 1
       /\ \A sid \in SessionIds, id \in CampParams, rid \in DOMAIN reviews :
            (DeleteReview(sid, id, rid)
               /\ sessions[sid].user = reviews[rid].author) =>
              /\ rid \notin DOMAIN reviews'
              /\ \A c \in DOMAIN campgrounds' :
                   Count(campgrounds'[c].reviews, rid) = 0]_vars

\* C9's case: r2 was created on the seeded campground and r1 was deleted.
C9_Witness ==
    /\ "c1" \in DOMAIN campgrounds
    /\ campgrounds["c1"].reviews = <<"r2">>
    /\ DOMAIN reviews = {"r2"}
    /\ nextReview = 3

C11_LoginConsumesReturnTo ==
    [][\A sid \in SessionIds, u \in DOMAIN users :
         Login(sid, users[u].email, TRUE) =>
           /\ last' = LoginRedirect(sessions[sid])
           /\ sessions'[sid].returnTo = NoUrl
           /\ sessions'[sid].user = u]_vars

\* C12: a logout leaves the session's cookie without user, whatever it held;
\* a second logout of the cookie changes nothing; and a cookie without user
\* gets one only by a successful login.
C12_LogoutRevokes ==
    [][\A sid \in SessionIds :
         /\ (\E uncaught \in BOOLEAN : Logout(sid, uncaught)) =>
              /\ sessions'[sid] = EmptySession
              /\ sessions[sid] = EmptySession => sessions' = sessions
         /\ (sessions[sid].user = None /\ sessions'[sid].user # None) =>
              \E u \in DOMAIN users : Login(sid, users[u].email, TRUE)]_vars

\* C12's case: the cookie of u1 was logged out, and the edit form it asks
\* for afterwards sends it to the login page.
C12_Witness ==
    /\ sessions["s1"].user = None
    /\ sessions["s1"].returnTo = Url("c1", "edit")
    /\ last = Response("login", "", "error")

\* C13 as stated: every request with a live session moves the session's
\* expiry to 7 days after the request, and a request with an expired session
\* has no user, as one with an unknown cookie.
C13_EveryResolveSlides ==
    [][\A sid \in SessionIds :
         Visit(sid) =>
           IF Live(sid)
           THEN expiry'[sid].expires = now + MaxAge
           ELSE Resolve(sid) = None /\ sessions'[sid] = EmptySession]_vars

\* C13, amended: a request with a live session moves the session's expiry to
\* 7 days after the request when the record was last written 24 hours or more
\* before, and leaves it as it is otherwise, so that the expiry is more than
\* 6 days after the request; a request with an expired session has no user
\* and gets an empty session, as one with an unknown cookie.
C13_ResolveSlidesAfterTouchAfter ==
    [][\A sid \in SessionIds :
         Visit(sid) =>
           IF Live(sid)
           THEN /\ sessions'[sid] = sessions[sid]
                /\ IF now - expiry[sid].lastModified >= TouchAfter
                   THEN expiry'[sid].expires = now + MaxAge
                   ELSE expiry'[sid] = expiry[sid]
                /\ expiry'[sid].expires > now + MaxAge - TouchAfter
           ELSE Resolve(sid) = None /\ sessions'[sid] = EmptySession]_vars

\* C13's case: the session of u1 was used on the second day and its expiry
\* moved, and the session of u2 ran out.
C13_Witness ==
    /\ sessions["s1"].user = "u1"
    /\ expiry["s1"] = [expires |-> 2 * TouchAfter + MaxAge,
                       lastModified |-> 2 * TouchAfter]
    /\ sessions["s2"] = EmptySession

C15_HandlesUnique ==
    \A u, v \in DOMAIN users :
      /\ users[u].email = users[v].email => u = v
      /\ (users[u].username # <<>> /\ users[u].username = users[v].username)
           => u = v

\* C16: a user saved without username gets the part of the email before its
\* first '@' as username, unless another user has that username already: then
\* the username is left unset.
C16_UsernameDerivedOrUnset ==
    [][\A req \in BagToSet(inflight) :
         RegisterSave(req) =>
           \A u \in DOMAIN users' \ DOMAIN users :
             LET derived == LocalPart(users'[u].email)
             IN  users'[u].username =
                   IF \E v \in DOMAIN users : users[v].username = derived
                   THEN <<>>
                   ELSE derived]_vars

\* C17: a PUT, DELETE or edit-form request of a logged-in user on an id that
\* no campground has is redirected to the index with an error notice, and
\* its handler does not run: nothing is suspended and nothing is changed.
C17_MissingRedirectedToIndex ==
    [][\A sid \in SessionIds, id \in CampParams \ DOMAIN campgrounds :
         (/\ sessions[sid].user # None
          /\ \/ \E body \in Bodies : PutCampground(sid, id, body)
             \/ DeleteRequest(sid, id)
             \/ EditRequest(sid, id))
         => /\ last' = Response("index", "", "error")
            /\ inflight' = inflight
            /\ UNCHANGED <<campgrounds, reviews, destroyed, sessions>>]_vars

\* C17's case: a request on c2, an id that no campground ever had, was sent
\* to the index.
C17_Witness ==
    /\ DOMAIN campgrounds = {"c1"}
    /\ nextCamp = 2
    /\ last = Response("index", "", "error")

\* C18: a notice queued by a request is handed to the rendering context of
\* at most one later request of its session, and is no longer in the session
\* once it was read.
C18_NoticeReadOnce ==
    \A n \in DOMAIN notices :
      /\ notices[n].handed <= 1
      /\ notices[n].handed >= 1 => ~notices[n].stored

\* C19: no failure raised while a request is handled ends the server
\* process: the refusal of the edit route that fails on a campground without
\* author and the failure raised in the callback of the logout handler both
\* end in the error page, and the server is still up to serve later requests.
C19_FailuresEndInErrorPage ==
    [][/\ up => up'
       /\ \A sid \in SessionIds :
            (\E uncaught \in BOOLEAN : Logout(sid, uncaught))
                => last' = Response("error", "", "")
       /\ \A sid \in SessionIds, id \in CampParams :
            (EditRequest(sid, id) /\ Guards(sessions[sid].user, id) = "error")
                => last' = Response("error", "", "")]_vars

\* C20: a GET request for the campgrounds feed is answered by the feed
\* handler, not by the show handler of a single campground, and it changes no
\* campground.
C20_FeedAnsweredByFeedHandler ==
    [][\A path \in FeedPaths :
         FeedRequest(path) => /\ last'.res = "campgrounds.json"
                              /\ campgrounds' = campgrounds]_vars

\* C21: whatever the call of the geocoding service ends in, geocode returns a
\* Point with coordinates [longitude, latitude] or null; it never rejects.
C21_GeocodeNeverRejects ==
    \/ geocoded.result = Null
    \/ /\ geocoded.result.type = "Point"
       /\ geocoded.result.coordinates =
            <<parseFloat(geocoded.response.lon).value,
              parseFloat(geocoded.response.lat).value>>

\* C22: a registration answered with success has created the user, has put
\* that user in the session of the request and redirects to the index; a
\* guarded request made afterwards with that session passes isLoggedIn and
\* acts for that user.
C22_RegisterLogsIn ==
    [][/\ \A req \in BagToSet(inflight) :
            (RegisterSave(req) /\ last'.flash = "success") =>
              /\ last' = Response("index", "", "success")
              /\ \E u \in DOMAIN users' \ DOMAIN users :
                   /\ users'[u].email = req.body.email
                   /\ sessions'[req.sid].user = u
       /\ \A sid \in SessionIds, body \in Bodies :
            (CreateCampground(sid, body) /\ sessions[sid].user \in DOMAIN users)
              => /\ last'.res = "show"
                 /\ campgrounds'[last'.to].author = sessions[sid].user]_vars

\* C22's case: the anonymous session s0 registered c@x, and the create
\* request it sent afterwards made a campground of the new user.
C22_Witness ==
    /\ sessions["s0"].user \in DOMAIN users
    /\ users[sessions["s0"].user].email = <<"c", "@", "x">>
    /\ \E id \in DOMAIN campgrounds :
         campgrounds[id].author = sessions["s0"].user
    /\ last.res = "show"

\* C27: a register request answered with the failure outcome (error notice,
\* redirect to the register form) has created no user, so that its email is
\* free for a later request.
C27_FailedRegisterCreatesNoUser ==
    [][/\ \A sid \in SessionIds, email \in Emails :
            (RegisterRequest(sid, email)
               /\ last' = Response("register", "", "error")) =>
              users' = users
       /\ \A req \in BagToSet(inflight) :
            (RegisterSave(req) /\ last' = Response("register", "", "error")) =>
              users' = users]_vars

\* C23: a GET /logout of a logged-in user ends with the session destroyed,
\* a success notice queued and the redirect to the index.
C23_LogoutEndsInRedirect ==
    [][\A sid \in SessionIds :
         (sessions[sid].user # None
            /\ \E uncaught \in BOOLEAN : Logout(sid, uncaught)) =>
           /\ sessions'[sid] = EmptySession
           /\ last' = Response("index", "", "success")]_vars

C25_NullAuthorRedirectedToShow ==
    [][\A sid \in SessionIds, id \in DOMAIN campgrounds :
         (/\ sessions[sid].user # None
          /\ campgrounds[id].author = None
          /\ \/ \E body \in Bodies : PutCampground(sid, id, body)
             \/ DeleteRequest(sid, id)
             \/ EditRequest(sid, id))
         => /\ last' = Response("show", id, "error")
            /\ inflight' = inflight
            /\ campgrounds' = campgrounds]_vars

\* C26 as stated: after a complete pass of the repair script every user that
\* has an email has a username, every campground and every review has an
\* author and at most one default user exists; a second pass changes no
\* record.
C26_EveryEmailGetsUsername ==
    /\ [](script.pass >= 1 =>
            /\ \A c \in DOMAIN campgrounds : campgrounds[c].author # None
            /\ \A r \in DOMAIN reviews : reviews[r].author # None
            /\ \A u, v \in DOMAIN users :
                 (users[u].email = SystemEmail /\ users[v].email = SystemEmail)
                    => u = v
            /\ \A u \in DOMAIN users :
                 users[u].email # <<>> => users[u].username # <<>>)
    /\ [][script.pass >= 1 => UNCHANGED <<users, campgrounds, reviews>>]_vars

\* C26 amended: after a complete pass of the repair script every user whose
\* email has a non-empty part before its first '@' has a username, every
\* campground and every review has an author and at most one default user
\* exists; a second pass changes no record.
C26_RepairPassCompletes ==
    /\ [](script.pass >= 1 =>
            /\ \A c \in DOMAIN campgrounds : campgrounds[c].author # None
            /\ \A r \in DOMAIN reviews : reviews[r].author # None
            /\ \A u, v \in DOMAIN users :
                 (users[u].email = SystemEmail /\ users[v].email = SystemEmail)
                    => u = v
            /\ \A u \in DOMAIN users :
                 LocalPart(users[u].email) # <<>> => users[u].username # <<>>)
    /\ [][script.pass >= 1 => UNCHANGED <<users, campgrounds, reviews>>]_vars

\* C26's case: two passes are complete, the script registered the default
\* user and made it the author of a campground, and gave u1 its username.
C26_Witness ==
    /\ script = [pass |-> 2, pc |-> "idle", todo |-> {}]
    /\ nextUser = 4
    /\ "u3" \in DOMAIN users /\ campgrounds["c1"].author = "u3"
    /\ users["u1"].username = <<"a">>

\* C28: a failed login redirects to the login page and leaves the returnTo
\* of the session as it was, so that the successful login that follows any
\* number of failed ones redirects to the url stored before them.
C28_FailedLoginKeepsReturnTo ==
    [][\A sid \in SessionIds, u \in DOMAIN users, ok \in BOOLEAN :
         Login(sid, users[u].email, ok) =>
           IF Authenticate(users[u].email, ok) = None
           THEN /\ last' = Response("login", "", "error")
                /\ sessions'[sid] = sessions[sid]
           ELSE sessions[sid].returnTo # NoUrl =>
                  last' = Redirect(sessions[sid].returnTo, "success")]_vars

====
